---- MODULE Spec2Model ----
(***************************************************************************)
(* Model of the research-aggregation pipeline of src/app.py:               *)
(* ResearchAPI.search_papers and the three clients it drives (ArxivAPI,    *)
(* SemanticScholarAPI, GroqAI).  One invocation of search_papers is a run  *)
(* from Call to pc = "done"; it is cut at every external request, whose    *)
(* answer is an input of the model.                                        *)
(***************************************************************************)
EXTENDS Integers, Sequences, FiniteSets, TLC

VARIABLES
    pc,               \* "idle", the external request in flight, or "done"
    query,            \* argument of ResearchAPI.search_papers
    groq_client,      \* get_groq_client(): TRUE iff GROQ_API_KEY is set
    feed,             \* the arXiv answer received by this invocation
    papers,           \* search_papers local
    paper_details,    \* search_papers local
    related_works,    \* search_papers local
    citation_counts,  \* search_papers local
    ai_summary,       \* search_papers local
    explain_like_15,  \* search_papers local
    keywords,         \* search_papers local
    trends,           \* search_papers local
    open_challenges,  \* search_papers local
    result,           \* return value of search_papers: None or <<bundle>>
    errors,           \* st.error messages of this invocation, in order
    arxivCalls,       \* requests sent to arXiv by this invocation, in order
    ssCalls,          \* ids looked up at Semantic Scholar, in order
    groqCalls,        \* GroqAI completions requested, in order
    groqReplies,      \* outcomes of those completions, in order
    viaMain,          \* TRUE iff main() made the call of search_papers
    search_results,   \* st.session_state.search_results: None or <<bundle>>
    current_query,    \* st.session_state.current_query: None or <<query>>
    export_data,      \* what export_results last returned in this run of main
    exports,          \* the calls of export_results since the last search
    now               \* the time of day

vars == <<pc, query, groq_client, feed, papers, paper_details, related_works,
          citation_counts, ai_summary, explain_like_15, keywords, trends,
          open_challenges, result, errors, arxivCalls, ssCalls, groqCalls,
          groqReplies, viaMain, search_results, current_query, export_data,
          exports, now>>

sessionVars == <<search_results, current_query>>

analysisVars == <<ai_summary, explain_like_15, keywords, trends, open_challenges>>

(* ------------------------------ bounds --------------------------------- *)

\* Largest number of entries in an arXiv answer.
MaxEntries == 6

\* Largest number of references in a Semantic Scholar answer.
MaxRefs == 6

\* Largest number of exports between two searches.
MaxExports == 2

\* The last time of day.
MaxTime == 2

(* --------------------------- program constants -------------------------- *)

\* max_results passed by ResearchAPI.search_papers to ArxivAPI.search_papers.
MaxResults == 5

\* get_related_works keeps the first RelatedLimit references.
RelatedLimit == 5

(* ------------------------------ values ---------------------------------- *)

\* Python's None as a return value; a returned dict d is <<d>>.
None == <<>>

Some(x) == <<x>>

Prefix(s, n) == SubSeq(s, 1, IF Len(s) < n THEN Len(s) ELSE n)

Queries == {"", "deep learning"}

\* The Atom children an entry is read from.
EntryFields == {"title", "summary", "published", "id"}

\* An arXiv answer: ok = the transport, the HTTP status and the XML are all
\* fine; entries in the index's order, entry i carrying identifier i;
\* missing = the required child the entry lacks ("" when it lacks none).
Entry(i, m) == [id |-> i, missing |-> m]

FeedOf(n, b, m) == [ok |-> TRUE,
                    entries |-> [i \in 1..n |-> Entry(i, IF i = b THEN m ELSE "")]]

FailedFeed == [ok |-> FALSE, entries |-> <<>>]

NoFeed == [ok |-> FALSE, entries |-> <<Entry(0, "")>>]

Feeds == {FailedFeed}
         \cup {FeedOf(n, 0, "") : n \in 0..MaxEntries}
         \cup UNION {{FeedOf(n, b, m) : b \in 1..n, m \in EntryFields} :
                        n \in 1..MaxEntries}

WellFormed(e) == e.missing = ""

\* ArxivAPI.search_papers builds one dict per entry; a missing child makes
\* entry.find(...) return None and the attribute access raise.
Paper(e) == [arxiv_id |-> e.id, url |-> e.id, title |-> e.id,
             authors |-> <<e.id, e.id + 1>>, abstract |-> e.id,
             published |-> e.id]

\* Whether the try block of ArxivAPI.search_papers raises on this answer:
\* requests.get / raise_for_status / ET.fromstring fail, or some entry of the
\* loop lacks a required child.
ArxivRaises(f) == \/ ~f.ok
                  \/ \E i \in 1..Len(f.entries) : ~WellFormed(f.entries[i])

\* ArxivAPI.search_papers: every entry of the answer, in order, or [] from
\* the except branch.
ArxivSearch(f) == IF ArxivRaises(f) THEN <<>>
                  ELSE [i \in 1..Len(f.entries) |-> Paper(f.entries[i])]

(* ---- Semantic Scholar ---- *)

\* A reference of the answer: a dict that has a "title" key or lacks it.
Reference(i) == [keys |-> IF i = 2 THEN {} ELSE {"title"},
                 title |-> IF i = 2 THEN 0 ELSE i]

References(n) == [i \in 1..n |-> Reference(i)]

\* A decoded JSON body: an object (keys = the keys present, the values of
\* absent keys held at 0 / <<>>) or an array of len elements.
JsonObject(ks, cc, rc, refs) ==
    [kind |-> "object", len |-> 0, keys |-> ks,
     citationCount |-> cc, referenceCount |-> rc, references |-> refs]

JsonArray(n) ==
    [kind |-> "array", len |-> n, keys |-> {},
     citationCount |-> 0, referenceCount |-> 0, references |-> <<>>]

EmptyDict == JsonObject({}, 0, 0, <<>>)

AllKeys == {"citationCount", "referenceCount", "references"}

Bodies == { EmptyDict,
            JsonObject(AllKeys, 0, 0, <<>>),
            JsonObject(AllKeys, 3, MaxRefs, References(MaxRefs)),
            JsonObject({"citationCount", "referenceCount"}, 3, 2, <<>>),
            JsonObject({"references"}, 0, 0, References(2)),
            JsonArray(0),
            JsonArray(1) }

\* An answer to requests.get(search_url, ..., timeout=10): kind "exception"
\* (connection error), "timeout", or "http" with a status; on status 200
\* json tells whether the body decodes, and body is what it decodes to.
SSAnswer(k, st, js, b) == [kind |-> k, status |-> st, json |-> js, body |-> b]

SSTimedOut == SSAnswer("timeout", 0, FALSE, EmptyDict)

SSAnswers == { SSAnswer("exception", 0, FALSE, EmptyDict),
               SSAnswer("http", 404, FALSE, EmptyDict),
               SSAnswer("http", 200, FALSE, EmptyDict) }
             \cup { SSAnswer("http", 200, TRUE, b) : b \in Bodies }

\* Python truth value of a decoded body / of a list.
Truthy(d) == IF d.kind = "object" THEN d.keys # {} ELSE d.len > 0

\* SemanticScholarAPI.get_paper_details: the decoded body on status 200,
\* {} on any other status and on any exception (response.json() included).
GetPaperDetails(a) ==
    IF a.kind = "http" /\ a.status = 200 /\ a.json THEN a.body ELSE EmptyDict

\* SemanticScholarAPI.get_related_works, given what its own call of
\* get_paper_details returned.
GetRelatedWorks(d) ==
    IF Truthy(d) /\ d.kind = "object" /\ "references" \in d.keys
    THEN Prefix(d.references, RelatedLimit)
    ELSE <<>>

\* citation_counts as built by search_papers lines 339-350; keys = the keys
\* of the dict.
Unavailable == "Semantic Scholar unavailable"

CitationCounts(d) ==
    IF Truthy(d)
    THEN [keys |-> {"citations", "references"},
          citations |-> IF "citationCount" \in d.keys THEN d.citationCount ELSE 0,
          references |-> IF "referenceCount" \in d.keys THEN d.referenceCount ELSE 0,
          status |-> ""]
    ELSE [keys |-> {"citations", "references", "status"},
          citations |-> 0, references |-> 0, status |-> Unavailable]

\* citation_counts = {} (line 330).
NoCounts == [keys |-> {}, citations |-> 0, references |-> 0, status |-> ""]

\* paper_details.get(...) raises AttributeError when the truthy value is not
\* a dict; only the handler of search_papers (line 370) catches it.
DetailsRaise(d) == Truthy(d) /\ d.kind # "object"

(* ---- Groq ---- *)

\* The five GroqAI operations, in the order search_papers calls them.
GroqOps == <<"summarize_papers", "explain_like_15", "extract_keywords",
             "analyze_trends", "identify_challenges">>

GroqOpSet == {GroqOps[i] : i \in 1..Len(GroqOps)}

OpIndex(op) == CHOOSE i \in 1..Len(GroqOps) : GroqOps[i] = op

\* A text is a sequence of pieces.  For extract_keywords the pieces are what
\* lies between the commas of the completion (content.split(",")).
Strip(piece) == CASE piece = " AI "  -> "AI"
                  [] piece = "  ml"  -> "ml"
                  [] piece = " "     -> ""
                  [] OTHER           -> piece

KeywordContents == { <<"  ml", " AI ", "", "robotics">>, <<" ">> }

Contents(op) == IF op = "extract_keywords" THEN KeywordContents
                ELSE { <<"content of", op>> }

\* The outcome of groq_client.chat.completions.create(...) followed by
\* response.choices[0].message.content: the content, or an exception.
Completed(c) == [ok |-> TRUE, text |-> c]

Raised(e) == [ok |-> FALSE, text |-> <<e>>]

GroqTimedOut == Raised("Request timed out.")

GroqOutcomes(op) == {Completed(c) : c \in Contents(op)} \cup {Raised("API error")}

ErrorPrefix(op) == CASE op = "summarize_papers"    -> "Error generating summary: "
                     [] op = "explain_like_15"     -> "Error generating explanation: "
                     [] op = "analyze_trends"      -> "Error analyzing trends: "
                     [] op = "identify_challenges" -> "Error identifying challenges: "
                     [] OTHER                      -> ""

\* [kw.strip() for kw in keywords if kw.strip()]
SplitKeywords(c) ==
    LET stripped == [i \in 1..Len(c) |-> Strip(c[i])]
        keep(x) == x # ""
    IN  SelectSeq(stripped, keep)

\* What a GroqAI operation returns for an outcome of its completion call.
GroqReturn(op, o) ==
    IF o.ok
    THEN IF op = "extract_keywords" THEN SplitKeywords(o.text) ELSE o.text
    ELSE IF op = "extract_keywords" THEN <<>> ELSE <<ErrorPrefix(op)>> \o o.text

\* What a GroqAI operation returns when get_groq_client() is None.
ClientMissing(op) ==
    IF op = "extract_keywords" THEN <<>> ELSE <<"Error: Groq client not available">>

\* As Propagates, were summarize_papers to lack its except branch.
PropagatesFromSummary(op, o) == op = "summarize_papers" /\ ~o.ok

\* Whether the exception of a completion call leaves the GroqAI operation:
\* each of the five wraps its call in try / except Exception.
Propagates(op, o) == FALSE

(* ---- ResearchAPI.search_papers ---- *)

\* As QueryMissing, were the validation left out.
QueryNeverMissing(q) == FALSE

\* `if not query` (line 316).
QueryMissing(q) == q = ""

\* As NoPapers, were the empty result not stopped at.
NeverNoPapers(ps) == FALSE

\* `if not papers` (line 324).
NoPapers(ps) == Len(ps) = 0

\* `if papers` (line 332).
HasPapers(ps) == Len(ps) > 0

\* The dict returned at lines 359-368.
Bundle(ps, s, x, k, rw, cc, t, oc) ==
    [papers |-> ps, ai_summary |-> s, explain_like_15 |-> x, keywords |-> k,
     related_works |-> rw, citation_counts |-> cc, trends |-> t,
     open_challenges |-> oc]

NoText == <<>>

Init ==
    /\ pc = "idle"
    /\ query = ""
    /\ groq_client \in BOOLEAN
    /\ feed = NoFeed
    /\ papers = <<>>
    /\ paper_details = EmptyDict
    /\ related_works = <<>>
    /\ citation_counts = NoCounts
    /\ ai_summary = NoText
    /\ explain_like_15 = NoText
    /\ keywords = NoText
    /\ trends = NoText
    /\ open_challenges = NoText
    /\ result = None
    /\ errors = <<>>
    /\ arxivCalls = <<>>
    /\ ssCalls = <<>>
    /\ groqCalls = <<>>
    /\ groqReplies = <<>>
    /\ viaMain = FALSE
    /\ search_results = None
    /\ current_query = None
    /\ export_data = None
    /\ exports = <<>>
    /\ now = 0

\* As ResultTruthy, were main() to store whatever search_papers returned.
ResultAlwaysTruthy(r) == TRUE

\* `if search_result` (line 578).
ResultTruthy(r) == r # None

\* `if st.session_state.search_results` (line 586).
StoredTruthy(sr) == sr # None

\* main() after search_papers has returned to it (lines 578-583): a truthy
\* result replaces both session entries, any other leaves both alone.  A
\* call not made by main(), or still in flight, touches neither.
MainContinues ==
    /\ IF viaMain' /\ pc' = "done" /\ ResultTruthy(result')
       THEN /\ search_results' = result'
            /\ current_query' = Some(query')
       ELSE UNCHANGED sessionVars
    /\ UNCHANGED now

\* Lines 352-368 from the first GroqAI operation on, entered with the
\* locals ps, rw, cc: without a client the five operations return at once
\* and the bundle is returned; with one, summarize_papers sends its request.
BeginAnalysis(ps, rw, cc) ==
    IF groq_client
    THEN /\ groqCalls' = <<GroqOps[1]>>
         /\ pc' = GroqOps[1]
         /\ UNCHANGED <<analysisVars, result>>
    ELSE /\ ai_summary' = ClientMissing("summarize_papers")
         /\ explain_like_15' = ClientMissing("explain_like_15")
         /\ keywords' = ClientMissing("extract_keywords")
         /\ trends' = ClientMissing("analyze_trends")
         /\ open_challenges' = ClientMissing("identify_challenges")
         /\ result' = Some(Bundle(ps, ai_summary', explain_like_15', keywords',
                                  rw, cc, trends', open_challenges'))
         /\ pc' = "done"
         /\ UNCHANGED groqCalls

\* The params of the GET sent by ArxivAPI.search_papers (lines 87-93).
ArxivRequest(q, n) == [search_query |-> q, start |-> 0, max_results |-> n]

\* search_papers(q) is called: validation, then the request to arXiv.
Call(q) ==
    /\ pc \in {"idle", "done"}
    /\ query' = q
    /\ feed' = NoFeed
    /\ papers' = <<>>
    /\ paper_details' = EmptyDict
    /\ related_works' = <<>>
    /\ citation_counts' = NoCounts
    /\ ai_summary' = NoText
    /\ explain_like_15' = NoText
    /\ keywords' = NoText
    /\ trends' = NoText
    /\ open_challenges' = NoText
    /\ result' = None
    /\ ssCalls' = <<>>
    /\ groqCalls' = <<>>
    /\ groqReplies' = <<>>
    /\ IF QueryMissing(q)
       THEN /\ errors' = <<"Query is required">>
            /\ arxivCalls' = <<>>
            /\ pc' = "done"
       ELSE /\ errors' = <<>>
            /\ arxivCalls' = <<ArxivRequest(q, MaxResults)>>
            /\ pc' = "arxiv"
    /\ UNCHANGED groq_client
    /\ MainContinues

\* arXiv answers (line 96): ArxivAPI.search_papers returns, then lines
\* 324-336 up to the first request to Semantic Scholar.
ArxivRespond(f) ==
    /\ pc = "arxiv"
    /\ feed' = f
    /\ LET ps == ArxivSearch(f)
           fetchError == IF ArxivRaises(f)
                         THEN <<"Error fetching from arXiv">> ELSE <<>>
       IN  /\ papers' = ps
           /\ IF NoPapers(ps)
              THEN /\ errors' = errors \o fetchError
                                \o <<"No papers found for the given query">>
                   /\ result' = None
                   /\ pc' = "done"
                   /\ UNCHANGED <<related_works, citation_counts, analysisVars,
                                  ssCalls, groqCalls>>
              ELSE IF HasPapers(ps)
              THEN /\ errors' = errors \o fetchError
                   /\ ssCalls' = <<ps[1].arxiv_id>>
                   /\ pc' = "ss_details"
                   /\ UNCHANGED <<related_works, citation_counts, analysisVars,
                                  result, groqCalls>>
              ELSE /\ errors' = errors \o fetchError
                   /\ BeginAnalysis(ps, related_works, citation_counts)
                   /\ UNCHANGED <<related_works, citation_counts, ssCalls>>
    /\ UNCHANGED <<query, groq_client, paper_details, arxivCalls, groqReplies,
                   viaMain, export_data, exports>>
    /\ MainContinues

\* The request of get_paper_details (line 336) ends with answer a; then
\* get_related_works (line 337) sends its own request for the same id.
DetailsReturned(a) ==
    /\ pc = "ss_details"
    /\ paper_details' = GetPaperDetails(a)
    /\ ssCalls' = Append(ssCalls, papers[1].arxiv_id)
    /\ pc' = "ss_related"
    /\ UNCHANGED <<query, groq_client, feed, papers, related_works,
                   citation_counts, analysisVars, result, errors, arxivCalls,
                   groqCalls, groqReplies, viaMain, export_data, exports>>
    /\ MainContinues

\* The request made inside get_related_works ends with answer a; then lines
\* 339-350 and the start of the analysis.
RelatedReturned(a) ==
    /\ pc = "ss_related"
    /\ LET rw == GetRelatedWorks(GetPaperDetails(a))
       IN  /\ related_works' = rw
           /\ IF DetailsRaise(paper_details)
              THEN /\ errors' = Append(errors, "Error during search")
                   /\ result' = None
                   /\ pc' = "done"
                   /\ UNCHANGED <<citation_counts, analysisVars, groqCalls>>
              ELSE /\ citation_counts' = CitationCounts(paper_details)
                   /\ errors' = errors
                   /\ BeginAnalysis(papers, rw, citation_counts')
    /\ UNCHANGED <<query, groq_client, feed, papers, paper_details,
                   arxivCalls, ssCalls, groqReplies, viaMain, export_data,
                   exports>>
    /\ MainContinues

\* The completion call of the GroqAI operation in flight ends with outcome
\* o; the operation returns, and the next one sends its request or, after
\* identify_challenges, the bundle is returned.
GroqReturned(o) ==
    /\ pc \in GroqOpSet
    /\ groqReplies' = Append(groqReplies, o)
    /\ LET op == pc
           v  == GroqReturn(op, o)
           i  == OpIndex(op)
           set(name, old) == IF op = name /\ ~Propagates(op, o) THEN v ELSE old
       IN  /\ ai_summary' = set("summarize_papers", ai_summary)
           /\ explain_like_15' = set("explain_like_15", explain_like_15)
           /\ keywords' = set("extract_keywords", keywords)
           /\ trends' = set("analyze_trends", trends)
           /\ open_challenges' = set("identify_challenges", open_challenges)
           /\ IF Propagates(op, o)
              THEN /\ errors' = Append(errors, "Error during search")
                   /\ result' = None
                   /\ pc' = "done"
                   /\ UNCHANGED groqCalls
              ELSE IF i < Len(GroqOps)
              THEN /\ groqCalls' = Append(groqCalls, GroqOps[i + 1])
                   /\ pc' = GroqOps[i + 1]
                   /\ UNCHANGED <<result, errors>>
              ELSE /\ result' = Some(Bundle(papers, ai_summary', explain_like_15',
                                            keywords', related_works,
                                            citation_counts, trends',
                                            open_challenges'))
                   /\ pc' = "done"
                   /\ UNCHANGED <<groqCalls, errors>>
    /\ UNCHANGED <<query, groq_client, feed, papers, paper_details,
                   related_works, citation_counts, arxivCalls, ssCalls,
                   viaMain, export_data, exports>>
    /\ MainContinues

\* ResearchAPI.search_papers called on its own, with any query.
Search ==
    \E q \in Queries :
        /\ viaMain' = FALSE
        /\ UNCHANGED <<export_data, exports>>
        /\ Call(q)

ArxivAnswers == \E f \in Feeds : ArxivRespond(f)

DetailsAnswered == \E a \in SSAnswers : DetailsReturned(a)

\* requests raises Timeout after timeout=10 (line 133).
DetailsTimeout == DetailsReturned(SSTimedOut)

RelatedAnswered == \E a \in SSAnswers : RelatedReturned(a)

RelatedTimeout == RelatedReturned(SSTimedOut)

GroqAnswered == \E o \in GroqOutcomes(pc) : GroqReturned(o)

\* The client built by Groq(api_key=api_key) (line 78) gives up a request
\* after its default timeout and raises.
GroqTimeout == GroqReturned(GroqTimedOut)

Next ==
    \/ Search
    \/ ArxivAnswers
    \/ DetailsAnswered
    \/ DetailsTimeout
    \/ RelatedAnswered
    \/ RelatedTimeout
    \/ GroqAnswered
    \/ GroqTimeout

Spec == Init /\ [][Next]_vars

\* A request that carries a timeout ends even when the service never
\* answers; the services themselves owe no answer, and the caller owes no
\* further search.
FairSpec ==
    /\ Spec
    /\ WF_vars(DetailsTimeout)
    /\ WF_vars(RelatedTimeout)
    /\ WF_vars(GroqTimeout)

(* ---- ResearchAPI.export_results ---- *)

\* query.replace(' ', '_')
Underscored(q) == CASE q = "deep learning" -> "deep_learning"
                    [] q = "a b c"         -> "a_b_c"
                    [] OTHER               -> q

\* sep.join(xs)
Join(sep, xs) ==
    IF Len(xs) = 0 THEN <<>>
    ELSE [i \in 1..(2 * Len(xs) - 1) |->
             IF i % 2 = 1 THEN xs[(i + 1) \div 2] ELSE sep]

\* The section of one paper (lines 386-397).
PaperSection(i, paper) ==
    <<"### ", i, ". ", paper.title,
      "**Authors:** ", Join(", ", paper.authors),
      "**Published:** ", paper.published,
      "**URL:** ", paper.url,
      "**Abstract:**", paper.abstract, "---">>

\* One line of the related works (line 425).
RelatedLine(work) ==
    IF "title" \in work.keys THEN <<"- ", "title", work.title>>
    ELSE <<"- ", "Unknown Title", 0>>

\* markdown_content (lines 379-425).
ExportContent(q, sr) ==
    LET shown == Prefix(sr.related_works, RelatedLimit)
    IN  <<"# Research Summary: ", q,
          "## Papers Found (", Len(sr.papers), ")",
          [i \in 1..Len(sr.papers) |-> PaperSection(i, sr.papers[i])],
          "## AI Summary", sr.ai_summary,
          "## Explain Like I'm 15", sr.explain_like_15,
          "## Keywords", Join(", ", sr.keywords),
          "## Trends & Insights", sr.trends,
          "## Open Challenges", sr.open_challenges,
          "## Related Works",
          [i \in 1..Len(shown) |-> RelatedLine(shown[i])]>>

\* As ExportFilename, were the name to carry the time of the export.
ExportFilenameStamped(q) == <<"research_summary_", Underscored(q), now, ".md">>

\* The "filename" entry (line 429).
ExportFilename(q) == <<"research_summary_", Underscored(q), ".md">>

\* ResearchAPI.export_results(q, sr), for a bundle sr of search_papers.
ExportResults(q, sr) ==
    Some([content |-> ExportContent(q, sr), filename |-> ExportFilename(q)])

(* ---- main ---- *)

\* What a session is fed: fewer answers than a single call is.
SessionQueries == {"", "deep learning", "ml"}

SessionFeeds == { FailedFeed, FeedOf(0, 0, ""), FeedOf(1, 0, ""),
                  FeedOf(2, 0, ""), FeedOf(2, 1, "title") }

SessionSSAnswers ==
    { SSAnswer("http", 404, FALSE, EmptyDict),
      SSAnswer("http", 200, TRUE,
               JsonObject(AllKeys, 3, MaxRefs, References(MaxRefs))),
      SSAnswer("http", 200, TRUE, JsonArray(1)) }

SessionGroqOutcomes(op) ==
    IF op = "summarize_papers"
    THEN { Completed(<<"content of", op>>), Raised("API error") }
    ELSE IF op = "extract_keywords"
    THEN { Completed(<<"  ml", " AI ", "", "robotics">>) }
    ELSE { Completed(<<"content of", op>>) }

\* `if search_clicked and query` (line 573).
QueryGiven(q) == q # ""

\* The search button is clicked with q in the text input: main() runs anew
\* (what the last run exported is gone) and, for a non-empty q, calls
\* search_papers (lines 573-576).
SearchClicked(q) ==
    /\ pc \in {"idle", "done"}
    /\ export_data' = None
    /\ exports' = <<>>
    /\ IF QueryGiven(q)
       THEN /\ viaMain' = TRUE
            /\ Call(q)
       ELSE UNCHANGED <<pc, query, groq_client, feed, papers, paper_details,
                        related_works, citation_counts, analysisVars, result,
                        errors, arxivCalls, ssCalls, groqCalls, groqReplies,
                        viaMain, sessionVars, now>>

\* One call of export_results: its arguments, when it was made, and what
\* it returned.
ExportCall(q, sr, r) == [query |-> q, search_result |-> sr, at |-> now,
                         returned |-> r]

\* export_results is called on the stored pair, as both the report button
\* and the preview checkbox do, inside `if st.session_state.search_results`
\* (line 586).
ExportCalled ==
    /\ pc \in {"idle", "done"}
    /\ StoredTruthy(search_results)
    /\ Len(exports) < MaxExports
    /\ export_data' = ExportResults(current_query[1], search_results[1])
    /\ exports' = Append(exports, ExportCall(current_query[1],
                                             search_results[1], export_data'))
    /\ UNCHANGED <<pc, query, groq_client, feed, papers, paper_details,
                   related_works, citation_counts, analysisVars, result,
                   errors, arxivCalls, ssCalls, groqCalls, groqReplies,
                   viaMain, sessionVars, now>>

MainSearch == \E q \in SessionQueries : SearchClicked(q)

\* "Generate Markdown Report" (lines 617-618, export_to_markdown).
GenerateReport == ExportCalled

\* "Preview Export Content" (lines 621-626).
PreviewExport == ExportCalled

SessionArxivAnswers == \E f \in SessionFeeds : ArxivRespond(f)

SessionDetailsAnswered == \E a \in SessionSSAnswers : DetailsReturned(a)

SessionRelatedAnswered == \E a \in SessionSSAnswers : RelatedReturned(a)

SessionGroqAnswered == \E o \in SessionGroqOutcomes(pc) : GroqReturned(o)

\* Time passes.
Tick ==
    /\ now < MaxTime
    /\ now' = now + 1
    /\ UNCHANGED <<pc, query, groq_client, feed, papers, paper_details,
                   related_works, citation_counts, analysisVars, result,
                   errors, arxivCalls, ssCalls, groqCalls, groqReplies,
                   viaMain, sessionVars, export_data, exports>>

SessionNext ==
    \/ MainSearch
    \/ SessionArxivAnswers
    \/ SessionDetailsAnswered
    \/ SessionRelatedAnswered
    \/ SessionGroqAnswered
    \/ GenerateReport
    \/ PreviewExport
    \/ Tick

\* One user session of main(): searches, exports, and time passing.
SessionSpec == Init /\ [][SessionNext]_vars

(* ------------------------------ properties ------------------------------ *)

\* The positions of a bundle's five analysis fields, in GroqOps order.
AnalysisField(b, i) == CASE i = 1 -> b.ai_summary
                         [] i = 2 -> b.explain_like_15
                         [] i = 3 -> b.keywords
                         [] i = 4 -> b.trends
                         [] OTHER -> b.open_challenges

\* C1: a call with an empty query ends at once with the validation error
\* and no bundle, and no request to arXiv, Semantic Scholar or Groq is ever
\* sent by it.
C1_EmptyQueryNoExternalCall ==
    (pc # "idle" /\ query = "") =>
        /\ pc = "done"
        /\ result = None
        /\ errors = <<"Query is required">>
        /\ arxivCalls = <<>>
        /\ ssCalls = <<>>
        /\ groqCalls = <<>>

C1_Witness ==
    pc = "done" /\ query = "" /\ errors = <<"Query is required">> /\ result = None

\* C2: a call with a non-empty query whose arXiv search gives no paper (no
\* match, or an error of the whole answer) returns no bundle and sends no
\* request to Semantic Scholar or Groq.
C2_ZeroPapersNoFurtherCalls ==
    (pc # "idle" /\ pc # "arxiv" /\ query # "" /\ Len(papers) = 0) =>
        /\ pc = "done"
        /\ result = None
        /\ Len(arxivCalls) = 1
        /\ ssCalls = <<>>
        /\ groqCalls = <<>>

C2_Witness ==
    /\ pc = "done" /\ query # "" /\ feed = FailedFeed /\ papers = <<>>
    /\ errors = <<"Error fetching from arXiv", "No papers found for the given query">>

\* C3: every returned bundle has between 1 and MaxResults papers, the first
\* entries of the arXiv answer in its order.
C3_BundleHasOneToFivePapers ==
    result # None =>
        /\ Len(result[1].papers) >= 1
        /\ Len(result[1].papers) <= MaxResults
        /\ \A i \in 1..Len(result[1].papers) :
               result[1].papers[i] = Paper(feed.entries[i])

\* C4: in every returned bundle, citation info marked unavailable comes
\* with an empty related-works sequence.
C4_UnavailableImpliesNoRelatedWorks ==
    (result # None /\ result[1].citation_counts.status = Unavailable) =>
        result[1].related_works = <<>>

\* C5: one invocation looks the first paper up at Semantic Scholar exactly
\* once, never a second time.
C5_SingleLookup ==
    /\ Len(ssCalls) <= 1
    /\ result # None => ssCalls = <<papers[1].arxiv_id>>

\* C6: the citation info of a bundle built after a failed lookup differs
\* from that of a bundle built after a lookup that reported zero citations
\* and zero references, and it does not store the counts as the number 0.
C6_UnavailableIsNotZero ==
    (result # None /\ result[1].citation_counts.status = Unavailable) =>
        /\ result[1].citation_counts # CitationCounts(JsonObject(AllKeys, 0, 0, <<>>))
        /\ result[1].citation_counts.citations # 0
        /\ result[1].citation_counts.references # 0

\* C7: once the analysis has sent its first request, all five requests are
\* sent whatever subset of them fails, a bundle is returned, a failed text
\* field is its operation's error string, failed keywords are empty, and a
\* field whose request succeeded holds that request's content (keywords:
\* its non-blank pieces, stripped).
C7_AnalysisCallsFailIndependently ==
    (pc = "done" /\ groqCalls # <<>>) =>
        /\ groqCalls = GroqOps
        /\ Len(groqReplies) = Len(GroqOps)
        /\ result # None
        /\ \A i \in 1..Len(GroqOps) :
             LET o == groqReplies[i]
                 v == AnalysisField(result[1], i)
             IN  IF GroqOps[i] = "extract_keywords"
                 THEN v = IF o.ok THEN SplitKeywords(o.text) ELSE <<>>
                 ELSE IF o.ok THEN v = o.text
                      ELSE /\ Len(v) = 2
                           /\ v[1] = ErrorPrefix(GroqOps[i])
                           /\ v[2] = o.text[1]

C7_Witness ==
    /\ pc = "done" /\ result # None /\ Len(groqReplies) = 5
    /\ ~groqReplies[1].ok
    /\ groqReplies[2].ok
    /\ ~groqReplies[3].ok
    /\ groqReplies[4].ok
    /\ ~groqReplies[5].ok
    /\ result[1].explain_like_15 = <<"content of", "explain_like_15">>

\* C8: a call with a non-empty query for which arXiv gave at least one
\* paper returns a bundle.
C8_OnlyTwoHardStops ==
    (pc = "done" /\ query # "" /\ Len(papers) > 0) => result # None

\* C9: of an arXiv answer that arrived and parsed, the papers are exactly
\* the well-formed entries, in the answer's order.
C9_DefectiveEntryDroppedAlone ==
    (pc # "idle" /\ pc # "arxiv" /\ query # "" /\ feed.ok) =>
        LET good == SelectSeq(feed.entries, WellFormed)
        IN  papers = [i \in 1..Len(good) |-> Paper(good[i])]

\* C10: every invocation in flight finishes, also when a service never
\* answers.
C10_EveryInvocationFinishes ==
    (pc # "idle" /\ pc # "done") ~> (pc = "done")

\* C11: export_results sends no request and leaves the stored bundle, the
\* stored query and the last search's result as they are; and any two calls
\* of it with the same query and the same bundle, however far apart in time,
\* return the same content and the same filename.
C11_ExportPureAndDeterministic ==
    /\ [](\A i, j \in 1..Len(exports) :
             (/\ exports[i].query = exports[j].query
              /\ exports[i].search_result = exports[j].search_result)
             => /\ exports[i].returned # None
                /\ exports[j].returned # None
                /\ exports[i].returned[1].content = exports[j].returned[1].content
                /\ exports[i].returned[1].filename = exports[j].returned[1].filename)
    /\ [][Len(exports') > Len(exports) =>
            UNCHANGED <<sessionVars, result, pc, arxivCalls, ssCalls, groqCalls,
                        groqReplies>>]_vars

C11_Witness ==
    /\ Len(exports) = 2
    /\ exports[1].at < exports[2].at
    /\ exports[1].query = "deep learning"
    /\ exports[2].query = exports[1].query
    /\ exports[2].search_result = exports[1].search_result
    /\ exports[2].returned = exports[1].returned
    /\ search_results = Some(exports[1].search_result)

\* C12: the stored pair (search_results, current_query) changes only when a
\* search made by main() returns a bundle, and then both entries are
\* replaced at once by that bundle and that search's query; a search that
\* ends without a bundle, and a click with an empty query, leave both as
\* they are; the two entries are always both None or both set.
C12_SessionPairReplacedAsAWhole ==
    /\ []((search_results = None) <=> (current_query = None))
    /\ []((pc = "done" /\ viaMain /\ result # None) =>
              (search_results = result /\ current_query = Some(query)))
    /\ [][(sessionVars' # sessionVars) =>
              /\ pc # "done" /\ pc' = "done"
              /\ viaMain
              /\ result' # None
              /\ search_results' = result'
              /\ current_query' = Some(query')]_vars
    /\ [][(pc # "done" /\ pc' = "done" /\ result' = None) =>
              UNCHANGED sessionVars]_vars

C12_Witness ==
    /\ pc = "done" /\ viaMain /\ result = None
    /\ query = "ml"
    /\ current_query = Some("deep learning")
    /\ search_results # None
    /\ Len(search_results[1].papers) = 2
====
